---- MODULE Spec2Model ----
(***************************************************************************)
(* A model of package kite (src/kite.go): the Kite node, its registries    *)
(* (Authenticators, trustedKontrolKeys, the three hook lists), the         *)
(* constructor New, the token-key lookup RSAKey and the websocket          *)
(* connection handler handleWS.                                            *)
(*                                                                         *)
(* Five specifications share the variables:                                *)
(*   SpecNew    the constructor applied to drawn (name, version) inputs;   *)
(*   SpecTrust  a constructed Kite whose configuration, trusted keys and   *)
(*              authenticators are changed by its owner while tokens are   *)
(*              looked up with RSAKey;                                     *)
(*   Spec       a constructed Kite serving connections (one goroutine per  *)
(*              connection running handleWS) while other goroutines        *)
(*              register hooks;                                            *)
(*   SpecPair   as Spec, with one connection more served at the same time  *)
(*              and a single registration;                                 *)
(*   SpecAll    one connection served while hooks are registered, keys     *)
(*              trusted and tokens looked up.                              *)
(*                                                                         *)
(* Go values are modelled as follows.  A string that the code only         *)
(* compares is a TLA+ string; the version, which the code splits, is a     *)
(* sequence of one-character strings.  A map is a function whose DOMAIN is *)
(* its key set.  A slice is the sequence of its elements (two slices never *)
(* share storage in the model).  A panic is an outcome of the call that    *)
(* raised it.                                                              *)
(***************************************************************************)
EXTENDS Naturals, Sequences, FiniteSets

VARIABLES
    constructed,            \* TRUE once New has returned a *Kite
    Config,                 \* k.Config: the fields this file reads
    Authenticators,         \* k.Authenticators
    trustedKontrolKeys,     \* k.trustedKontrolKeys
    onConnectHandlers,      \* k.onConnectHandlers
    onFirstRequestHandlers, \* k.onFirstRequestHandlers
    onDisconnectHandlers,   \* k.onDisconnectHandlers
    name,                   \* k.name
    version,                \* k.version
    id,                     \* k.id
    hostname,               \* the package variable hostname, set by init()
    newCall,                \* the call of New: its arguments and outcome
    rsaCall,                \* the latest call of RSAKey: its token and outcome
    authCall,               \* the latest authenticator registration
    reg,                    \* the goroutines registering hooks
    conn                    \* the connections, one handleWS goroutine each

vars == <<constructed, Config, Authenticators, trustedKontrolKeys,
          onConnectHandlers, onFirstRequestHandlers, onDisconnectHandlers,
          name, version, id, hostname, newCall, rsaCall, authCall, reg, conn>>

kiteVars == <<constructed, Config, Authenticators, trustedKontrolKeys,
              onConnectHandlers, onFirstRequestHandlers, onDisconnectHandlers,
              name, version, id>>

hookVars == <<onConnectHandlers, onFirstRequestHandlers, onDisconnectHandlers>>

----------------------------------------------------------------------------
(* Bounds and input sets *)

\* longest version string drawn as an input of New
MaxVersionLen == 5

\* calls of OnConnect / OnFirstRequest / OnDisconnect made after New
MaxRegs == 2

\* connections accepted by the server in Spec
NumConns == 1

VersionChars == {"1", "a", "."}

Names == {"", "kite"}

Issuers == {"kontrol", "evil"}

Keys == {"K1", "K2"}

AuthTags == {"token", "kiteKey", "sso"}

AuthStrategies == {"AuthenticateFromToken", "AuthenticateFromKiteKey", "custom"}

RECURSIVE SeqsUpTo(_, _)
SeqsUpTo(S, n) ==
    IF n = 0 THEN {<<>>}
    ELSE LET shorter == SeqsUpTo(S, n - 1)
         IN  shorter \cup {Append(s, x) : s \in shorter, x \in S}

Versions == SeqsUpTo(VersionChars, MaxVersionLen)

DefaultName == "kite"

DefaultVersion == <<"1", ".", "1", ".", "1">>

DefaultID == "uuid-1"

\* lines 24-30: what os.Hostname() returned when the package was loaded
Hostname == "host-1"

----------------------------------------------------------------------------
(* strings.Split(version, "."): the pieces between the separators, one     *)
(* more than there are separators; a piece may be empty.                   *)

RECURSIVE Split(_, _)
Split(s, sep) ==
    IF s = <<>> THEN <<(<<>>)>>
    ELSE LET rest == Split(Tail(s), sep)
         IN  IF Head(s) = sep
             THEN <<(<<>>)>> \o rest
             ELSE <<(<<Head(s)>> \o Head(rest))>> \o Tail(rest)

\* the value config.New() returns, as far as this file reads it
NewConfig == [KontrolUser |-> "", KontrolKey |-> "",
              Username |-> "user-1", Environment |-> "env-1", Region |-> "region-1"]

\* lines 111 and 114: the two built-in authenticators
NewAuthenticators ==
    [t \in {"token", "kiteKey"} |->
        IF t = "token" THEN "AuthenticateFromToken" ELSE "AuthenticateFromKiteKey"]

\* line 95: make(map[string]string)
NewTrustedKontrolKeys == [i \in {} |-> "K1"]

\* lines 105-107: New registers a logging hook first in each list
NewOnConnectHandlers == <<"logConnect">>

NewOnFirstRequestHandlers == <<"logFirstRequest">>

NewOnDisconnectHandlers == <<"logDisconnect">>

\* line 82: the version check of New
VersionOK(v) == Len(Split(v, ".")) = 3

\* why New(n, v) panics, or "" when it returns a Kite
NewPanic(n, v, uuidErr) ==
    IF n = "" THEN "kite: name cannot be empty"
    ELSE IF ~VersionOK(v) THEN "kite: version must be 3-digits semantic version"
    ELSE IF uuidErr THEN "kite: cannot generate unique ID"
    ELSE ""

NoCall == [called |-> FALSE, name |-> "", version |-> <<>>, uuidErr |-> FALSE,
           panic |-> ""]

NoAuthCall == [called |-> FALSE, tag |-> "", strategy |-> ""]

NoRSACall == [called |-> FALSE, iss |-> [type |-> "nil", val |-> ""],
              kind |-> "none", val |-> ""]

----------------------------------------------------------------------------
(* m[k] = v on a Go map *)
MapSet(m, k, v) == [x \in DOMAIN m \cup {k} |-> IF x = k THEN v ELSE m[x]]

(* The goroutines and connections of Spec, at rest *)

Registrars == 1..MaxRegs

Conns == 1..NumConns

\* SpecPair serves one connection more than Spec; SpecAll registers one hook
\* less
PairConns == 1..(NumConns + 1)

PairRegistrars == 1..(MaxRegs - 1)

IdleReg == [pc |-> "idle", ev |-> "none", h |-> "none", seen |-> <<>>]

NoFire == [status |-> "none", snap |-> <<>>, log |-> <<>>, arg |-> 0]

NewConn == [pc |-> "new", client |-> 0, closed |-> FALSE,
            identified |-> FALSE, lateConnect |-> FALSE,
            connect |-> NoFire, firstRequest |-> NoFire, disconnect |-> NoFire]

InitServe ==
    /\ reg = [r \in Registrars |-> IdleReg]
    /\ conn = [c \in PairConns |-> NewConn]

----------------------------------------------------------------------------
(* New, lines 77-120 *)

InitNew ==
    /\ constructed = FALSE
    /\ Config = NewConfig
    /\ Authenticators = [t \in {} |-> "custom"]
    /\ trustedKontrolKeys = NewTrustedKontrolKeys
    /\ onConnectHandlers = <<>>
    /\ onFirstRequestHandlers = <<>>
    /\ onDisconnectHandlers = <<>>
    /\ name = ""
    /\ version = <<>>
    /\ id = ""
    /\ hostname = Hostname
    /\ newCall = NoCall
    /\ rsaCall = NoRSACall
    /\ authCall = NoAuthCall
    /\ InitServe

New(n, v, uuidErr) ==
    /\ ~newCall.called
    /\ newCall' = [called |-> TRUE, name |-> n, version |-> v, uuidErr |-> uuidErr,
                   panic |-> NewPanic(n, v, uuidErr)]
    /\ IF NewPanic(n, v, uuidErr) # ""
       THEN UNCHANGED kiteVars
       ELSE /\ constructed' = TRUE
            /\ Config' = NewConfig
            /\ Authenticators' = NewAuthenticators
            /\ trustedKontrolKeys' = NewTrustedKontrolKeys
            /\ onConnectHandlers' = NewOnConnectHandlers
            /\ onFirstRequestHandlers' = NewOnFirstRequestHandlers
            /\ onDisconnectHandlers' = NewOnDisconnectHandlers
            /\ name' = n
            /\ version' = v
            /\ id' = DefaultID
    /\ UNCHANGED <<hostname, rsaCall, authCall, reg, conn>>

NextNew == \E n \in Names, v \in Versions, e \in BOOLEAN : New(n, v, e)

SpecNew == InitNew /\ [][NextNew]_vars

\* the state New(DefaultName, DefaultVersion) returns
Init ==
    /\ constructed = TRUE
    /\ Config = NewConfig
    /\ Authenticators = NewAuthenticators
    /\ trustedKontrolKeys = NewTrustedKontrolKeys
    /\ onConnectHandlers = NewOnConnectHandlers
    /\ onFirstRequestHandlers = NewOnFirstRequestHandlers
    /\ onDisconnectHandlers = NewOnDisconnectHandlers
    /\ name = DefaultName
    /\ version = DefaultVersion
    /\ id = DefaultID
    /\ hostname = Hostname
    /\ newCall = [called |-> TRUE, name |-> DefaultName, version |-> DefaultVersion,
                  uuidErr |-> FALSE, panic |-> ""]
    /\ rsaCall = NoRSACall
    /\ authCall = NoAuthCall
    /\ InitServe

----------------------------------------------------------------------------
(* The trust store, the configuration and the authenticators *)

ConfigUsers == Issuers \cup {""}

ConfigKeys == Keys \cup {""}

\* token.Claims["iss"]: absent, not a string, or a string
IssClaims ==
    {[type |-> "nil", val |-> ""], [type |-> "number", val |-> "7"]}
        \cup {[type |-> "string", val |-> i] : i \in Issuers \cup {""}}

\* the owner assigns the exported field k.Config
SetConfig(user, key) ==
    /\ Config' = [Config EXCEPT !.KontrolUser = user, !.KontrolKey = key]
    /\ UNCHANGED <<constructed, Authenticators, trustedKontrolKeys, hookVars,
                   name, version, id, hostname, newCall, rsaCall, authCall, reg, conn>>

\* a trust call that makes the map anew for the issuer it is given
TrustKontrolKeyOnly(issuer, key) ==
    /\ trustedKontrolKeys' = [i \in {issuer} |-> key]
    /\ UNCHANGED <<constructed, Config, Authenticators, hookVars,
                   name, version, id, hostname, newCall, rsaCall, authCall, reg, conn>>

\* lines 136-138
TrustKontrolKey(issuer, key) ==
    /\ trustedKontrolKeys' = MapSet(trustedKontrolKeys, issuer, key)
    /\ UNCHANGED <<constructed, Config, Authenticators, hookVars,
                   name, version, id, hostname, newCall, rsaCall, authCall, reg, conn>>

\* a registration that keeps the strategy a tag already has
RegisterAuthenticatorKeepFirst(tag, strategy) ==
    /\ Authenticators' = IF tag \in DOMAIN Authenticators THEN Authenticators
                         ELSE MapSet(Authenticators, tag, strategy)
    /\ authCall' = [called |-> TRUE, tag |-> tag, strategy |-> strategy]
    /\ UNCHANGED <<constructed, Config, trustedKontrolKeys, hookVars,
                   name, version, id, hostname, newCall, rsaCall, reg, conn>>

\* k.Authenticators[tag] = strategy, as lines 111 and 114 do
RegisterAuthenticator(tag, strategy) ==
    /\ Authenticators' = MapSet(Authenticators, tag, strategy)
    /\ authCall' = [called |-> TRUE, tag |-> tag, strategy |-> strategy]
    /\ UNCHANGED <<constructed, Config, trustedKontrolKeys, hookVars,
                   name, version, id, hostname, newCall, rsaCall, reg, conn>>

\* lines 218-233: what RSAKey does with a token whose "iss" claim is iss
RSAKeyResult(iss) ==
    IF Config.KontrolKey = ""
    THEN [kind |-> "panic", val |-> "kontrol key is not set in config"]
    ELSE IF iss.type # "string"
    THEN [kind |-> "error", val |-> "token does not contain a valid issuer claim"]
    ELSE IF iss.val # Config.KontrolUser
    THEN [kind |-> "error", val |-> "issuer is not trusted"]
    ELSE [kind |-> "key", val |-> Config.KontrolKey]

RSAKey(iss) ==
    /\ rsaCall' = [called |-> TRUE, iss |-> iss,
                   kind |-> RSAKeyResult(iss).kind, val |-> RSAKeyResult(iss).val]
    /\ UNCHANGED <<kiteVars, hostname, newCall, authCall, reg, conn>>

NextTrust ==
    \/ \E u \in ConfigUsers, k \in ConfigKeys : SetConfig(u, k)
    \/ \E i \in Issuers, k \in Keys : TrustKontrolKey(i, k)
    \/ \E t \in AuthTags, s \in AuthStrategies : RegisterAuthenticator(t, s)
    \/ \E iss \in IssClaims : RSAKey(iss)

SpecTrust == Init /\ [][NextTrust]_vars

----------------------------------------------------------------------------
(* The hook lists.  A hook is a function value supplied by the caller; the  *)
(* model draws it from two behaviours: "boom" panics, "adder" registers the *)
(* hook "h1" for the event it is fired for and returns.  "h1" and the       *)
(* logging hooks of New return and do nothing else.                         *)

Events == {"connect", "firstRequest", "disconnect"}

UserHooks == {"boom", "adder"}

Panics(h) == h = "boom"

Registers(h) == h = "adder"

Handlers(ev) ==
    IF ev = "connect" THEN onConnectHandlers
    ELSE IF ev = "firstRequest" THEN onFirstRequestHandlers
    ELSE onDisconnectHandlers

\* the assignment k.on<ev>Handlers = list, the other two lists untouched
SetHandlers(ev, list) ==
    /\ onConnectHandlers' = IF ev = "connect" THEN list ELSE onConnectHandlers
    /\ onFirstRequestHandlers' =
           IF ev = "firstRequest" THEN list ELSE onFirstRequestHandlers
    /\ onDisconnectHandlers' = IF ev = "disconnect" THEN list ELSE onDisconnectHandlers

(* OnConnect / OnFirstRequest / OnDisconnect, lines 184-196:                *)
(*     k.list = append(k.list, handler)                                     *)
(* reads the slice, appends to what it read and stores the result, with no  *)
(* lock: another goroutine may run between the read and the store.          *)

\* the callers are numbered in the order in which they start
RegRead(r, ev, h) ==
    /\ reg[r].pc = "idle"
    /\ \A q \in Registrars : q < r => reg[q].pc # "idle"
    /\ reg' = [reg EXCEPT ![r] = [pc |-> "append", ev |-> ev, h |-> h,
                                  seen |-> Handlers(ev)]]
    /\ UNCHANGED <<kiteVars, hostname, newCall, rsaCall, authCall, conn>>

RegWrite(r) ==
    /\ reg[r].pc = "append"
    /\ SetHandlers(reg[r].ev, Append(reg[r].seen, reg[r].h))
    /\ reg' = [reg EXCEPT ![r].pc = "done"]
    /\ UNCHANGED <<constructed, Config, Authenticators, trustedKontrolKeys,
                   name, version, id, hostname, newCall, rsaCall, authCall, conn>>

(* callOn<Event>Handlers, lines 198-214: for _, handler := range k.list.    *)
(* The range expression is evaluated once, when the loop starts: the loop   *)
(* runs over the elements the slice had then.                               *)

StartFire(ev, arg) ==
    [status |-> IF Handlers(ev) = <<>> THEN "done" ELSE "running",
     snap |-> Handlers(ev), log |-> <<>>, arg |-> arg]

\* the hook the loop calls next
NextHook(f) == f.snap[Len(f.log) + 1]

\* the loop after calling its next hook: a panic leaves the loop
AfterHook(f) ==
    [f EXCEPT !.log = Append(f.log, NextHook(f)),
              !.status = IF Panics(NextHook(f)) THEN "aborted"
                         ELSE IF Len(f.log) + 1 = Len(f.snap) THEN "done"
                         ELSE "running"]

\* what the call of the next hook of f does to the lists of the Kite
HookEffect(ev, f) ==
    IF Registers(NextHook(f))
    THEN SetHandlers(ev, Append(Handlers(ev), "h1"))
    ELSE UNCHANGED hookVars

\* an unwinding that leaves the connection as it was: no deferred close
UnwoundOpen(cn) == [cn EXCEPT !.pc = "panicked"]

\* a panic unwinds handleWS: the deferred ws.Close() of line 146 runs
Unwound(cn) == [cn EXCEPT !.pc = "panicked", !.closed = TRUE]

----------------------------------------------------------------------------
(* handleWS, lines 145-160, one goroutine per connection *)

\* clients made so far: NewClient returns a new one each time
ClientsMade == Cardinality({c \in PairConns : conn[c].pc # "new"})

\* an accept that gives the Kite a new instance id for each connection
AcceptNewID(c) ==
    /\ conn[c].pc = "new"
    /\ \A d \in PairConns : d < c => conn[d].pc # "new"
    /\ LET f == StartFire("connect", c)
       IN  conn' = [conn EXCEPT ![c] =
               [@ EXCEPT !.client = ClientsMade + 1,
                         !.connect = f,
                         !.pc = IF f.status = "done" THEN "readLoop"
                                ELSE "connectHooks"]]
    /\ id' = "uuid-2"
    /\ UNCHANGED <<constructed, Config, Authenticators, trustedKontrolKeys, hookVars,
                   name, version, hostname, newCall, rsaCall, authCall, reg>>

\* lines 146-153: the client is made, the connect hooks start; the
\* connections are numbered in the order in which they are accepted
Accept(c) ==
    /\ conn[c].pc = "new"
    /\ \A d \in PairConns : d < c => conn[d].pc # "new"
    /\ LET f == StartFire("connect", c)
       IN  conn' = [conn EXCEPT ![c] =
               [@ EXCEPT !.client = ClientsMade + 1,
                         !.connect = f,
                         !.pc = IF f.status = "done" THEN "readLoop"
                                ELSE "connectHooks"]]
    /\ UNCHANGED <<kiteVars, hostname, newCall, rsaCall, authCall, reg>>

\* line 200: one connect hook is called; after the last one line 156 starts
ConnectHook(c) ==
    /\ conn[c].pc = "connectHooks"
    /\ LET f == AfterHook(conn[c].connect)
       IN  conn' = [conn EXCEPT ![c] =
               IF f.status = "aborted" THEN Unwound([@ EXCEPT !.connect = f])
               ELSE [@ EXCEPT !.connect = f,
                              !.pc = IF f.status = "done" THEN "readLoop"
                                     ELSE "connectHooks"]]
    /\ HookEffect("connect", conn[c].connect)
    /\ UNCHANGED <<constructed, Config, Authenticators, trustedKontrolKeys,
                   name, version, id, hostname, newCall, rsaCall, authCall, reg>>

\* the read loop handles the first request: the first-request hooks start
FirstRequest(c) ==
    /\ conn[c].pc = "readLoop"
    /\ ~conn[c].identified
    /\ LET f == StartFire("firstRequest", conn[c].client)
       IN  conn' = [conn EXCEPT ![c] =
               [@ EXCEPT !.firstRequest = f,
                         !.identified = TRUE,
                         !.pc = IF f.status = "done" THEN "readLoop"
                                ELSE "firstRequestHooks"]]
    /\ UNCHANGED <<kiteVars, hostname, newCall, rsaCall, authCall, reg>>

\* line 206: one first-request hook is called.  A panic leaves
\* callOnFirstRequestHandlers; its caller either recovers it (the read loop
\* goes on) or lets it unwind handleWS.
FirstRequestHook(c, recovered) ==
    /\ conn[c].pc = "firstRequestHooks"
    /\ LET f == AfterHook(conn[c].firstRequest)
       IN  conn' = [conn EXCEPT ![c] =
               IF f.status = "aborted" /\ ~recovered
               THEN Unwound([@ EXCEPT !.firstRequest = f])
               ELSE [@ EXCEPT !.firstRequest = f,
                              !.pc = IF f.status = "running"
                                     THEN "firstRequestHooks" ELSE "readLoop"]]
    /\ HookEffect("firstRequest", conn[c].firstRequest)
    /\ UNCHANGED <<constructed, Config, Authenticators, trustedKontrolKeys,
                   name, version, id, hostname, newCall, rsaCall, authCall, reg>>

\* a read-loop exit that hands the disconnect hooks the client made last
ReadLoopExitLatest(c) ==
    /\ conn[c].pc = "readLoop"
    /\ LET f == StartFire("disconnect", ClientsMade)
       IN  conn' = [conn EXCEPT ![c] =
               [@ EXCEPT !.lateConnect = TRUE,
                         !.disconnect = f,
                         !.pc = IF f.status = "done" THEN "returned"
                                ELSE "disconnectHooks",
                         !.closed = (f.status = "done")]]
    /\ UNCHANGED <<kiteVars, hostname, newCall, rsaCall, authCall, reg>>

\* lines 156-159: readLoop returns (the peer closed, an I/O error, a local
\* close: handleWS does not tell them apart), line 158 calls the client's
\* connect handlers, the disconnect hooks start
ReadLoopExit(c) ==
    /\ conn[c].pc = "readLoop"
    /\ LET f == StartFire("disconnect", conn[c].client)
       IN  conn' = [conn EXCEPT ![c] =
               [@ EXCEPT !.lateConnect = TRUE,
                         !.disconnect = f,
                         !.pc = IF f.status = "done" THEN "returned"
                                ELSE "disconnectHooks",
                         !.closed = (f.status = "done")]]
    /\ UNCHANGED <<kiteVars, hostname, newCall, rsaCall, authCall, reg>>

\* line 212: one disconnect hook is called; after the last one handleWS
\* returns and the deferred ws.Close() runs
DisconnectHook(c) ==
    /\ conn[c].pc = "disconnectHooks"
    /\ LET f == AfterHook(conn[c].disconnect)
       IN  conn' = [conn EXCEPT ![c] =
               IF f.status = "aborted" THEN Unwound([@ EXCEPT !.disconnect = f])
               ELSE [@ EXCEPT !.disconnect = f,
                              !.pc = IF f.status = "done" THEN "returned"
                                     ELSE "disconnectHooks",
                              !.closed = (f.status = "done")]]
    /\ HookEffect("disconnect", conn[c].disconnect)
    /\ UNCHANGED <<constructed, Config, Authenticators, trustedKontrolKeys,
                   name, version, id, hostname, newCall, rsaCall, authCall, reg>>

Serve(R, C) ==
    \/ \E r \in R, ev \in Events, h \in UserHooks : RegRead(r, ev, h)
    \/ \E r \in R : RegWrite(r)
    \/ \E c \in C : Accept(c)
    \/ \E c \in C : ConnectHook(c)
    \/ \E c \in C : FirstRequest(c)
    \/ \E c \in C, recovered \in BOOLEAN : FirstRequestHook(c, recovered)
    \/ \E c \in C : ReadLoopExit(c)
    \/ \E c \in C : DisconnectHook(c)

Next == Serve(Registrars, Conns)

Spec == Init /\ [][Next]_vars

NextPair == Serve({1}, PairConns)

SpecPair == Init /\ [][NextPair]_vars

\* lines 123-133: the descriptor Kite() returns
Kite ==
    [Username |-> Config.Username, Environment |-> Config.Environment,
     Name |-> name, Version |-> version, Region |-> Config.Region,
     Hostname |-> hostname, ID |-> id]

\* serving one connection, registering, trusting and looking up, all on
\* one Kite
NextAll ==
    \/ Serve(PairRegistrars, {1})
    \/ SetConfig("kontrol", "K1")
    \/ \E i \in Issuers : TrustKontrolKey(i, "K1")
    \/ \E iss \in IssClaims : RSAKey(iss)

SpecAll == Init /\ [][NextAll]_vars

----------------------------------------------------------------------------
(* The claims *)

Digits == {"0", "1", "2", "3", "4", "5", "6", "7", "8", "9"}

\* exactly three dot-separated components, each a non-empty run of digits
ThreeNumeric(v) ==
    LET parts == Split(v, ".")
    IN  /\ Len(parts) = 3
        /\ \A i \in 1..3 :
              /\ parts[i] # <<>>
              /\ \A j \in 1..Len(parts[i]) : parts[i][j] \in Digits

IsPrefix(s, t) == Len(s) <= Len(t) /\ \A i \in 1..Len(s) : s[i] = t[i]

Count(list, h) == Cardinality({i \in 1..Len(list) : list[i] = h})

Ended(f) == f.status \in {"done", "aborted"}

Fire(c, ev) ==
    IF ev = "connect" THEN conn[c].connect
    ELSE IF ev = "firstRequest" THEN conn[c].firstRequest
    ELSE conn[c].disconnect

(* C1: a lookup by RSAKey for a token whose issuer is I yields K when      *)
(* TrustKontrolKey(I, K) was called before it, and is rejected with an      *)
(* error when no TrustKontrolKey(I, _) was called before it.  Stated for a  *)
(* Kite whose Config.KontrolKey is set, where RSAKey does not panic.        *)
C1_TrustThenLookup ==
    [][\A iss \in IssClaims :
          (RSAKey(iss) /\ iss.type = "string" /\ Config.KontrolKey # "") =>
              IF iss.val \in DOMAIN trustedKontrolKeys
              THEN rsaCall'.kind = "key" /\ rsaCall'.val = trustedKontrolKeys[iss.val]
              ELSE rsaCall'.kind = "error"]_vars

(* C2: RSAKey never returns key material for a token whose issuer is not a  *)
(* key of trustedKontrolKeys.                                               *)
C2_AbsentIssuerRejected ==
    [][\A iss \in IssClaims :
          (RSAKey(iss) /\ rsaCall'.kind = "key") =>
              (iss.type = "string" /\ iss.val \in DOMAIN trustedKontrolKeys)]_vars

(* C5: RSAKey ends in a returned key or a returned error, never in a panic, *)
(* for every token and every configuration.                                 *)
C5_RSAKeyNeverPanics == rsaCall.called => rsaCall.kind \in {"key", "error"}

(* C6: New(name, version) fails if and only if the name is empty or the     *)
(* version is not exactly three dot-separated numeric components (the       *)
(* generation of the instance id aside).                                    *)
C6_NewFailsIffInvalid ==
    (newCall.called /\ ~newCall.uuidErr) =>
        ((newCall.panic # "") <=>
            (newCall.name = "" \/ ~ThreeNumeric(newCall.version)))

(* C3: when handleWS has ended for a connection, on whatever path, the      *)
(* disconnect hooks were fired for it: once, every one of them.             *)
C3_DisconnectHooksOnce ==
    \A c \in Conns :
        conn[c].pc \in {"returned", "panicked"} =>
            /\ conn[c].disconnect.status = "done"
            /\ conn[c].disconnect.log = conn[c].disconnect.snap

(* C4: the failure of a hook is swallowed: it ends neither the firing of    *)
(* the hooks after it nor the handleWS of the session.                      *)
C4_HookFailureSwallowed ==
    \A c \in Conns :
        /\ conn[c].pc # "panicked"
        /\ \A ev \in Events : Fire(c, ev).status # "aborted"

(* C7: a firing calls the hooks of its event in registration order, one     *)
(* after the other, and when it has ended it has called every one of them   *)
(* exactly once.                                                            *)
C7_FireAllInOrder ==
    \A c \in Conns, ev \in Events :
        /\ IsPrefix(Fire(c, ev).log, Fire(c, ev).snap)
        /\ Ended(Fire(c, ev)) => Fire(c, ev).log = Fire(c, ev).snap

\* what the range loop gives whether or not a hook panics: the hooks called
\* are the first hooks of the list, in its order, and a loop that ran to its
\* end called all of them
FiringsInOrder ==
    \A c \in PairConns, ev \in Events :
        /\ IsPrefix(Fire(c, ev).log, Fire(c, ev).snap)
        /\ Fire(c, ev).status = "done" => Fire(c, ev).log = Fire(c, ev).snap

(* C8: registrations that interleave lose nothing: every hook whose         *)
(* registration has returned is in the list of its event, as many times as  *)
(* it was registered.                                                       *)
C8_NoLostRegistration ==
    \A ev \in Events, h \in UserHooks :
        Count(Handlers(ev), h) >=
            Cardinality({r \in Registrars :
                            reg[r].pc = "done" /\ reg[r].ev = ev /\ reg[r].h = h})

(* C9: a firing in which a hook registered another hook for the same event  *)
(* has called exactly the hooks that were in the list when it started, in   *)
(* order, and the hook registered meanwhile is in the list for the firings  *)
(* after it.                                                                *)
C9_FireSafeAgainstRegisteringHook ==
    \A c \in Conns, ev \in Events :
        (Ended(Fire(c, ev)) /\ Count(Fire(c, ev).log, "adder") > 0) =>
            /\ Fire(c, ev).log = Fire(c, ev).snap
            /\ Count(Handlers(ev), "h1") >= Count(Fire(c, ev).log, "adder")

(* C10: the authenticator set starts with the two built-in tags, a          *)
(* registration maps its tag to the strategy registered, whether or not the *)
(* tag was present, and leaves every other tag as it was; the set maps each *)
(* tag to one strategy, the one registered last.                            *)
C10_AuthenticatorSet ==
    /\ DOMAIN Authenticators = {"token", "kiteKey"}
    /\ Authenticators["token"] = "AuthenticateFromToken"
    /\ Authenticators["kiteKey"] = "AuthenticateFromKiteKey"
    /\ [](authCall.called =>
            /\ authCall.tag \in DOMAIN Authenticators
            /\ Authenticators[authCall.tag] = authCall.strategy)
    /\ [][IF authCall' # authCall
          THEN /\ DOMAIN Authenticators' = DOMAIN Authenticators \cup {authCall'.tag}
               /\ Authenticators'[authCall'.tag] = authCall'.strategy
               /\ \A t \in DOMAIN Authenticators \ {authCall'.tag} :
                     Authenticators'[t] = Authenticators[t]
          ELSE Authenticators' = Authenticators]_vars

\* a built-in tag was registered again and maps to the new strategy, beside
\* a tag that New did not register
C10_Witness ==
    /\ authCall.called
    /\ authCall.tag = "token"
    /\ authCall.strategy = "custom"
    /\ Authenticators["token"] = "custom"
    /\ Authenticators["kiteKey"] = "AuthenticateFromKiteKey"
    /\ "sso" \in DOMAIN Authenticators

(* C11: from construction on Kite() returns a descriptor made of the name   *)
(* and version given to New, the generated id, the hostname and the         *)
(* configured username, environment and region, and no step of              *)
(* TrustKontrolKey, hook registration, hook firing, handleWS or RSAKey      *)
(* changes any field of it.                                                 *)
C11_IdentityImmutable ==
    /\ [](constructed =>
            /\ Kite.Name = newCall.name /\ Kite.Name # ""
            /\ Kite.Version = newCall.version
            /\ Kite.ID = DefaultID
            /\ Kite.Hostname = Hostname
            /\ Kite.Username = NewConfig.Username
            /\ Kite.Environment = NewConfig.Environment
            /\ Kite.Region = NewConfig.Region)
    /\ [][Kite' = Kite]_vars

\* a key was trusted, a token looked up, a hook registered and fired, a
\* connection served to its end, and the descriptor is the one New made
C11_Witness ==
    /\ trustedKontrolKeys # NewTrustedKontrolKeys
    /\ rsaCall.called
    /\ \E r \in Registrars : reg[r].pc = "done"
    /\ conn[1].pc = "returned" /\ Len(conn[1].disconnect.log) > 1
    /\ Kite.Name = DefaultName /\ Kite.Version = DefaultVersion /\ Kite.ID = DefaultID

(* C12: TrustKontrolKey(issuer, key) is an upsert: afterwards the issuer    *)
(* maps to the key, every other issuer maps to what it mapped to before,    *)
(* and no issuer is added but this one; doing it a second time changes      *)
(* nothing more; no operation removes an issuer or changes the key of one   *)
(* it was not called for.                                                   *)
C12_TrustIsIdempotentUpsert ==
    /\ [][\A i \in Issuers, k \in Keys :
            TrustKontrolKey(i, k) =>
                /\ DOMAIN trustedKontrolKeys' = DOMAIN trustedKontrolKeys \cup {i}
                /\ trustedKontrolKeys'[i] = k
                /\ \A j \in DOMAIN trustedKontrolKeys \ {i} :
                      trustedKontrolKeys'[j] = trustedKontrolKeys[j]]_vars
    /\ [][/\ DOMAIN trustedKontrolKeys \subseteq DOMAIN trustedKontrolKeys'
          /\ \A j \in DOMAIN trustedKontrolKeys :
                \/ trustedKontrolKeys'[j] = trustedKontrolKeys[j]
                \/ TrustKontrolKey(j, trustedKontrolKeys'[j])]_vars
    /\ [](\A i \in Issuers, k \in Keys :
            LET once == MapSet(trustedKontrolKeys, i, k)
            IN  MapSet(once, i, k) = once)

\* both issuers are trusted, and one of them with the key of its latest call
C12_Witness ==
    /\ DOMAIN trustedKontrolKeys = Issuers
    /\ trustedKontrolKeys["kontrol"] = "K2"
    /\ trustedKontrolKeys["evil"] = "K1"

(* C13: a token whose claims hold no issuer, or an issuer that is not a     *)
(* string, is rejected by RSAKey with the error of the issuer check and no  *)
(* key material, in every configuration.                                    *)
C13_AbsentIssuerRejected ==
    (rsaCall.called /\ rsaCall.iss.type # "string") =>
        /\ rsaCall.kind = "error"
        /\ rsaCall.val = "token does not contain a valid issuer claim"

(* C14: every accepted connection has a client of its own, made for it and  *)
(* kept; the disconnect hooks fired for a connection are given the client   *)
(* of that connection; and a step of one connection, its closing included,  *)
(* calls no hook for another connection.                                    *)
C14_OwnClientPerConnection ==
    /\ [](\A c \in PairConns :
            /\ conn[c].pc # "new" => conn[c].client \in 1..ClientsMade
            /\ \A d \in PairConns \ {c} :
                  (conn[c].pc # "new" /\ conn[d].pc # "new") =>
                      conn[c].client # conn[d].client
            /\ conn[c].disconnect.status # "none" =>
                  conn[c].disconnect.arg = conn[c].client)
    /\ [][\A c \in PairConns :
            /\ conn[c].pc # "new" => conn'[c].client = conn[c].client
            /\ conn'[c] # conn[c] =>
                  \A d \in PairConns \ {c} : conn'[d] = conn[d]]_vars

\* two connections open at a time; the first has closed after its disconnect
\* hook was called with its client, the second is still being read
C14_Witness ==
    /\ conn[1].pc = "returned" /\ conn[1].closed
    /\ Len(conn[1].disconnect.log) > 0
    /\ conn[1].disconnect.arg = 1
    /\ conn[2].pc = "readLoop" /\ conn[2].client = 2
    /\ conn[2].identified
    /\ conn[2].disconnect = NoFire

(* C15: within one connection the connect hooks have returned before the    *)
(* read loop takes its first message, the disconnect hooks start only after *)
(* the read loop has exited, the connection is closed when handleWS has     *)
(* ended, by return or by a panic, and not while it runs, and on the path   *)
(* of the return the disconnect hooks have run before the close.            *)
C15_SessionOrder ==
    \A c \in PairConns :
        /\ (conn[c].pc \in {"readLoop", "firstRequestHooks"} \/ conn[c].identified) =>
              conn[c].connect.status = "done"
        /\ conn[c].disconnect.status # "none" =>
              /\ conn[c].pc \in {"disconnectHooks", "returned", "panicked"}
              /\ conn[c].connect.status = "done"
              /\ conn[c].firstRequest.status # "running"
        /\ conn[c].closed <=> conn[c].pc \in {"returned", "panicked"}
        /\ conn[c].pc = "returned" =>
              /\ conn[c].disconnect.status = "done"
              /\ conn[c].disconnect.log = conn[c].disconnect.snap

\* one connection ended by a panic, the other by the return after a request
\* and the disconnect hooks: both are closed
C15_Witness ==
    /\ conn[1].pc = "panicked" /\ conn[1].closed
    /\ conn[2].pc = "returned" /\ conn[2].closed
    /\ conn[2].identified
    /\ Len(conn[2].connect.log) > 0 /\ Len(conn[2].disconnect.log) > 0

(* C16: connect hooks, those of the Kite and those of the client, are      *)
(* called at the start of a session only: none is called once the read loop *)
(* of the connection has exited.                                            *)
C16_NoConnectHookAfterReadLoop ==
    \A c \in Conns : ~conn[c].lateConnect

\* new is old, or old with one entry more at its end
AppendedTo(old, new) ==
    \/ new = old
    \/ Len(new) = Len(old) + 1 /\ SubSeq(new, 1, Len(old)) = old

(* C17: the hook lists are append-only and independent: a step that changes *)
(* a list adds one entry at its end and leaves the entries it had, the      *)
(* other two lists, the trusted keys and the authenticators as they were.   *)
C17_HookListsAppendOnly ==
    [][/\ AppendedTo(onConnectHandlers, onConnectHandlers')
       /\ AppendedTo(onFirstRequestHandlers, onFirstRequestHandlers')
       /\ AppendedTo(onDisconnectHandlers, onDisconnectHandlers')
       /\ Cardinality({ev \in Events : Handlers(ev)' # Handlers(ev)}) <= 1
       /\ hookVars' # hookVars =>
             /\ trustedKontrolKeys' = trustedKontrolKeys
             /\ Authenticators' = Authenticators]_vars

====
